---- MODULE Spec2Model ----
\* A model of main.py: the module-level start-up code, main(), the
\* authentication routine authenticate_google_calendar(), the row-to-event
\* mapping with create_weekly_recurrence(), and the import loop of
\* add_events_from_csv().  One run of the script is one behaviour.
EXTENDS Integers, Sequences, FiniteSets, TLC

VARIABLES
    pc,          \* position of the single thread of control
    environ,     \* os.environ restricted to CALENDAR_ID (a function on the names set)
    tokenFile,   \* token.json on disk
    creds,       \* local `creds` of authenticate_google_calendar: <<>> is None
    service,     \* local `service` of main: <<>> is unbound, else <<handle>>
    csvLines,    \* calendar_events.csv as its sequence of physical lines
    filePos,     \* number of lines of the csv file consumed by the file object
    fieldnames,  \* DictReader._fieldnames: <<>> is None, else <<header tuple>>
    first_row,   \* local `first_row` of add_events_from_csv: <<>> is None
    row,         \* loop variable `row`: <<>> before the first iteration
    event,       \* loop local `event`: <<>> before the first one is built
    calls,       \* every external effect of the run, in order
    log          \* every record handed to the logger by the run, in order

vars == <<pc, environ, tokenFile, creds, service, csvLines, filePos,
          fieldnames, first_row, row, event, calls, log>>

-----------------------------------------------------------------------------
\* Bounds of the model.

MaxRows == 3        \* at most this many data rows in the table
MinYear == 2023     \* the dates drawn for the mapping specification
NumYears == 2       \* ... cover NumYears years from MinYear

-----------------------------------------------------------------------------
\* Text helpers.  A Python str that the code slices is a sequence of
\* one-character strings; a str that is only compared or concatenated is a
\* TLA+ string.

LowerChars == <<"a","b","c","d","e","f","g","h","i","j","k","l","m",
                "n","o","p","q","r","s","t","u","v","w","x","y","z">>
UpperChars == <<"A","B","C","D","E","F","G","H","I","J","K","L","M",
                "N","O","P","Q","R","S","T","U","V","W","X","Y","Z">>

\* str.upper() on one character
UpperChar(c) ==
    IF \E i \in 1..Len(LowerChars) : LowerChars[i] = c
    THEN UpperChars[CHOOSE i \in 1..Len(LowerChars) : LowerChars[i] = c]
    ELSE c

\* str.upper()
Upper(s) == [i \in 1..Len(s) |-> UpperChar(s[i])]

\* s[:n]
Prefix(s, n) == SubSeq(s, 1, IF n < Len(s) THEN n ELSE Len(s))

\* the characters of s as one string
RECURSIVE Join(_)
Join(s) == IF s = <<>> THEN "" ELSE Head(s) \o Join(Tail(s))

Digits == <<"0","1","2","3","4","5","6","7","8","9">>
Digit(n) == Digits[n + 1]

\* "%02d" and "%04d" as datetime.isoformat() uses them
Pad2(n) == Digit((n \div 10) % 10) \o Digit(n % 10)
Pad4(n) == Digit((n \div 1000) % 10) \o Digit((n \div 100) % 10) \o Pad2(n % 100)

-----------------------------------------------------------------------------
\* datetime.  A date text "Y-M-D" is the tuple <<Y, M, D>> of its numeric
\* fields and a time text "H:M" the tuple <<H, M>>; a text that does not
\* have that shape is a tuple of another length.

IsLeap(y) == (y % 4 = 0) /\ ((y % 100 # 0) \/ (y % 400 = 0))

DaysInMonth(y, m) ==
    IF m = 2 THEN (IF IsLeap(y) THEN 29 ELSE 28)
    ELSE IF m \in {4, 6, 9, 11} THEN 30 ELSE 31

\* datetime.strptime(f"{date} {time}", "%Y-%m-%d %H:%M"): the datetime, or
\* ValueError (ok = FALSE)
ParseFailed == [ok |-> FALSE, value |-> <<>>]
\* variant: the shape is checked, the ranges of the fields are not
strptimeLenient(date, time) ==
    IF Len(date) = 3 /\ Len(time) = 2
    THEN [ok |-> TRUE,
          value |-> <<[year |-> date[1], month |-> date[2], day |-> date[3],
                       hour |-> time[1], minute |-> time[2], second |-> 0]>>]
    ELSE ParseFailed
strptime(date, time) ==
    IF /\ Len(date) = 3 /\ Len(time) = 2
       /\ date[1] \in 1..9999
       /\ date[2] \in 1..12
       /\ date[3] \in 1..DaysInMonth(date[1], date[2])
       /\ time[1] \in 0..23
       /\ time[2] \in 0..59
    THEN [ok |-> TRUE,
          value |-> <<[year |-> date[1], month |-> date[2], day |-> date[3],
                       hour |-> time[1], minute |-> time[2], second |-> 0]>>]
    ELSE ParseFailed

\* datetime.isoformat() of a datetime without microseconds or tzinfo
isoformat(dt) ==
    Pad4(dt.year) \o "-" \o Pad2(dt.month) \o "-" \o Pad2(dt.day) \o "T"
    \o Pad2(dt.hour) \o ":" \o Pad2(dt.minute) \o ":" \o Pad2(dt.second)

\* datetime.toordinal(): days since 0001-01-01, which is day 1
RECURSIVE DaysBeforeMonth(_, _)
DaysBeforeMonth(y, m) ==
    IF m = 1 THEN 0 ELSE DaysBeforeMonth(y, m - 1) + DaysInMonth(y, m - 1)
DaysBeforeYear(y) ==
    (y - 1) * 365 + ((y - 1) \div 4) - ((y - 1) \div 100) + ((y - 1) \div 400)
toordinal(dt) == DaysBeforeYear(dt.year) + DaysBeforeMonth(dt.year, dt.month) + dt.day

\* datetime.weekday(): Monday is 0
weekday(dt) == (toordinal(dt) + 6) % 7

\* strftime('%A') in the C locale
DayNames == << <<"M","o","n","d","a","y">>,
               <<"T","u","e","s","d","a","y">>,
               <<"W","e","d","n","e","s","d","a","y">>,
               <<"T","h","u","r","s","d","a","y">>,
               <<"F","r","i","d","a","y">>,
               <<"S","a","t","u","r","d","a","y">>,
               <<"S","u","n","d","a","y">> >>
strftimeA(dt) == DayNames[weekday(dt) + 1]

-----------------------------------------------------------------------------
\* create_weekly_recurrence(start_date)

\* variant: the two letters are not uppercased
create_weekly_recurrenceNoUpper(start_date) ==
    << "RRULE:FREQ=WEEKLY;COUNT=52;BYDAY="
       \o Join(Prefix(strftimeA(start_date), 2)) >>
create_weekly_recurrence(start_date) ==
    << "RRULE:FREQ=WEEKLY;COUNT=52;BYDAY="
       \o Join(Upper(Prefix(strftimeA(start_date), 2))) >>

-----------------------------------------------------------------------------
\* The csv file and csv.DictReader.

\* the header line the script's docstring documents
Header == <<"Subject", "Start Date", "Start Time", "End Date", "End Time",
            "Description", "Location">>

\* the data lines the tables of the model are made of: three that parse (the
\* docstring's example, one whose start and end fall on different days, one
\* with one-digit fields), one whose start date does not exist, one whose
\* end time does not
SampleLines ==
    { <<"Exercise", <<2024, 10, 14>>, <<7, 0>>, <<2024, 10, 14>>, <<8, 0>>,
        "Workout", "Gym">>,
      <<"Trip", <<2024, 10, 18>>, <<22, 30>>, <<2024, 10, 19>>, <<6, 15>>,
        "Night train", "Station">>,
      <<"Standup", <<2025, 1, 5>>, <<9, 5>>, <<2025, 1, 5>>, <<9, 20>>,
        "Daily", "Room 1">>,
      <<"Review", <<2023, 2, 29>>, <<9, 0>>, <<2023, 3, 1>>, <<10, 0>>,
        "", "Office">>,
      <<"Call", <<2024, 2, 29>>, <<23, 0>>, <<2024, 2, 29>>, <<24, 0>>,
        "Sync", "">> }

RECURSIVE SeqsUpTo(_, _)
SeqsUpTo(S, n) ==
    IF n = 0 THEN {<<>>}
    ELSE LET shorter == SeqsUpTo(S, n - 1)
         IN shorter \cup {Append(q, x) : q \in shorter, x \in S}

\* the files the model runs on: an empty file, or the header and up to
\* MaxRows data lines
Tables == {<<>>} \cup {<<Header>> \o rs : rs \in SeqsUpTo(SampleLines, MaxRows)}

\* dict(zip(fieldnames, line)) of DictReader.__next__
DictRow(fns, line) ==
    [name \in {fns[i] : i \in 1..Len(fns)} |->
        line[CHOOSE i \in 1..Len(fns) : fns[i] = name]]

\* file.seek(0)
\* variant: the file is not rewound
seekStay(pos) == pos
seek0(pos) == 0

-----------------------------------------------------------------------------
\* The environment and the credential.

\* os.getenv(name): <<>> is None
getenv(name) == IF name \in DOMAIN environ THEN <<environ[name]>> ELSE <<>>

\* truth value of an Optional[str]
Truthy(opt) == opt # <<>> /\ opt[1] # ""

\* Credentials.valid: an access token is present and it has not expired
Valid(c) == c.token /\ ~c.expired

\* the condition of line 72 that selects the refresh branch
\* variant: refresh whenever a refresh token is present
NeedsRefreshAnyInvalid(c) == c # <<>> /\ c[1].refresh_token
NeedsRefresh(c) == c # <<>> /\ c[1].expired /\ c[1].refresh_token

\* the condition of line 70 that selects the whole re-authentication block
NeedsAuth(c) == c = <<>> \/ ~Valid(c[1])

\* the contents token.json can have at start: none, one that
\* from_authorized_user_file rejects, or a credential
TokenFiles ==
    {[exists |-> FALSE, loadable |-> FALSE, token |-> FALSE, expired |-> FALSE,
      refresh_token |-> FALSE, origin |-> "file"],
     [exists |-> TRUE, loadable |-> FALSE, token |-> FALSE, expired |-> FALSE,
      refresh_token |-> FALSE, origin |-> "file"]}
    \cup [exists : {TRUE}, loadable : {TRUE}, token : BOOLEAN, expired : BOOLEAN,
          refresh_token : BOOLEAN, origin : {"file"}]

\* Credentials.from_authorized_user_file / creds.to_json()
FromFile(f) == [token |-> f.token, expired |-> f.expired,
                refresh_token |-> f.refresh_token, origin |-> f.origin]
ToFile(c) == [exists |-> TRUE, loadable |-> TRUE, token |-> c.token,
              expired |-> c.expired, refresh_token |-> c.refresh_token,
              origin |-> c.origin]

-----------------------------------------------------------------------------
\* Records of the two traces.

Call(op, result) == [op |-> op, body |-> <<>>, result |-> result]
InsertCall(calendarId, e, result) ==
    [op |-> "insert", calendarId |-> calendarId, body |-> <<e>>, result |-> result]
Log(level, line) == [level |-> level, line |-> line]

\* the handler of main, lines 150-151: log the error, fall off the end
\* variant: the error is logged and raised again, out of main
RaiseEscapes(entries) ==
    /\ log' = log \o entries \o <<Log("ERROR", 151)>>
    /\ pc' = "crashed"
Raise(entries) ==
    /\ log' = log \o entries \o <<Log("ERROR", 151)>>
    /\ pc' = "done"

-----------------------------------------------------------------------------
\* The row-to-event mapping, lines 114-130.

TimeZone == "America/New_York"

\* the event dictionary of lines 117-130
\* variant: start and end exchanged
EventOfSwapped(r, start_datetime, end_datetime) ==
    [summary |-> r["Subject"],
     location |-> r["Location"],
     description |-> r["Description"],
     start |-> [dateTime |-> isoformat(end_datetime), timeZone |-> TimeZone],
     end |-> [dateTime |-> isoformat(start_datetime), timeZone |-> TimeZone],
     recurrence |-> create_weekly_recurrence(start_datetime)]
EventOf(r, start_datetime, end_datetime) ==
    [summary |-> r["Subject"],
     location |-> r["Location"],
     description |-> r["Description"],
     start |-> [dateTime |-> isoformat(start_datetime), timeZone |-> TimeZone],
     end |-> [dateTime |-> isoformat(end_datetime), timeZone |-> TimeZone],
     recurrence |-> create_weekly_recurrence(start_datetime)]

\* lines 114-130 for one row: the event, or the ValueError of strptime
RowEvent(r) ==
    LET s == strptime(r["Start Date"], r["Start Time"])
        e == IF s.ok THEN strptime(r["End Date"], r["End Time"]) ELSE ParseFailed
    IN IF s.ok /\ e.ok
       THEN [ok |-> TRUE, value |-> <<EventOf(r, s.value[1], e.value[1])>>]
       ELSE ParseFailed

\* the except clause of line 135: the errors of an insert call it catches
\* variant: no error is caught in the loop
\* variant: every error is caught in the loop
CaughtPerRowAll(err) == TRUE
CaughtPerRowNone(err) == FALSE
CaughtPerRow(err) == err = "HttpError"

-----------------------------------------------------------------------------
\* The run.

Init ==
    /\ pc = "module"
    /\ \/ environ = <<>>
       \/ environ \in {[CALENDAR_ID |-> v] : v \in {"", "primary"}}
    /\ tokenFile \in TokenFiles
    /\ csvLines \in Tables
    /\ creds = <<>>
    /\ service = <<>>
    /\ filePos = 0
    /\ fieldnames = <<>>
    /\ first_row = <<>>
    /\ row = <<>>
    /\ event = <<>>
    /\ calls = <<>>
    /\ log = <<>>

\* lines 30-60, run when the script is loaded
ModuleLoad ==
    /\ pc = "module"
    /\ log' = log \o <<Log("INFO", 36), Log("INFO", 40)>>
                  \o (IF "CALENDAR_ID" \in DOMAIN environ
                      THEN <<Log("INFO", 43)>> ELSE <<>>)
                  \o (IF Truthy(getenv("CALENDAR_ID"))
                      THEN <<Log("INFO", 50)>> ELSE <<Log("ERROR", 52)>>)
    /\ pc' = "main"
    /\ UNCHANGED <<environ, tokenFile, creds, service, csvLines, filePos,
                   fieldnames, first_row, row, event, calls>>

\* main, lines 139-146
\* variant: the missing identifier is logged and main goes on
MainCheckConfigNoReturn ==
    /\ pc = "main"
    /\ IF ~Truthy(getenv("CALENDAR_ID"))
       THEN log' = log \o <<Log("ERROR", 143), Log("INFO", 146)>>
       ELSE log' = Append(log, Log("INFO", 146))
    /\ pc' = "auth_load"
    /\ UNCHANGED <<environ, tokenFile, creds, service, csvLines, filePos,
                   fieldnames, first_row, row, event, calls>>
MainCheckConfig ==
    /\ pc = "main"
    /\ IF ~Truthy(getenv("CALENDAR_ID"))
       THEN /\ log' = Append(log, Log("ERROR", 143))
            /\ pc' = "done"
       ELSE /\ log' = Append(log, Log("INFO", 146))
            /\ pc' = "auth_load"
    /\ UNCHANGED <<environ, tokenFile, creds, service, csvLines, filePos,
                   fieldnames, first_row, row, event, calls>>

\* authenticate_google_calendar, lines 65-68
AuthLoad ==
    /\ pc = "auth_load"
    /\ IF tokenFile.exists
       THEN /\ calls' = Append(calls, Call("read_token",
                                IF tokenFile.loadable THEN "ok" ELSE "error"))
            /\ IF tokenFile.loadable
               THEN /\ creds' = <<FromFile(tokenFile)>>
                    /\ log' = Append(log, Log("DEBUG", 67))
                    /\ pc' = "auth_validate"
               ELSE /\ Raise(<<Log("DEBUG", 67)>>)
                    /\ UNCHANGED creds
       ELSE /\ pc' = "auth_validate"
            /\ UNCHANGED <<creds, calls, log>>
    /\ UNCHANGED <<environ, tokenFile, service, csvLines, filePos,
                   fieldnames, first_row, row, event>>

\* lines 70-76: the branch taken
AuthValidate ==
    /\ pc = "auth_validate"
    /\ IF NeedsAuth(creds)
       THEN IF NeedsRefresh(creds)
            THEN /\ log' = log \o <<Log("DEBUG", 71), Log("DEBUG", 73)>>
                 /\ pc' = "auth_refresh"
            ELSE /\ log' = log \o <<Log("DEBUG", 71), Log("DEBUG", 76)>>
                 /\ pc' = "auth_grant"
       ELSE /\ pc' = "auth_build"
            /\ UNCHANGED log
    /\ UNCHANGED <<environ, tokenFile, creds, service, csvLines, filePos,
                   fieldnames, first_row, row, event, calls>>

\* line 74, creds.refresh(Request()): the token endpoint answers with a new
\* access token (whose expiry the server chooses) or the call raises
\* variant: the refreshed credential is not written back
AuthRefreshSkipsSave ==
    /\ pc = "auth_refresh"
    /\ \E result \in {"ok", "error"}, exp \in BOOLEAN :
        /\ calls' = Append(calls, Call("refresh", result))
        /\ IF result = "ok"
           THEN /\ creds' = <<[token |-> TRUE, expired |-> exp,
                               refresh_token |-> TRUE, origin |-> "refresh"]>>
                /\ pc' = "auth_build"
                /\ UNCHANGED log
           ELSE /\ ~exp
                /\ Raise(<<>>)
                /\ UNCHANGED creds
    /\ UNCHANGED <<environ, tokenFile, service, csvLines, filePos,
                   fieldnames, first_row, row, event>>
\* variant: a failed refresh is attempted again
AuthRefreshRetries ==
    /\ pc = "auth_refresh"
    /\ \E result \in {"ok", "error"}, exp \in BOOLEAN :
        /\ calls' = Append(calls, Call("refresh", result))
        /\ IF result = "ok"
           THEN /\ creds' = <<[token |-> TRUE, expired |-> exp,
                               refresh_token |-> TRUE, origin |-> "refresh"]>>
                /\ pc' = "auth_persist"
                /\ UNCHANGED log
           ELSE /\ ~exp
                /\ pc' = "auth_refresh"
                /\ UNCHANGED <<creds, log>>
    /\ UNCHANGED <<environ, tokenFile, service, csvLines, filePos,
                   fieldnames, first_row, row, event>>
\* variant: a failed refresh removes token.json
AuthRefreshDropsToken ==
    /\ pc = "auth_refresh"
    /\ \E result \in {"ok", "error"}, exp \in BOOLEAN :
        /\ calls' = Append(calls, Call("refresh", result))
        /\ IF result = "ok"
           THEN /\ creds' = <<[token |-> TRUE, expired |-> exp,
                               refresh_token |-> TRUE, origin |-> "refresh"]>>
                /\ pc' = "auth_persist"
                /\ UNCHANGED <<log, tokenFile>>
           ELSE /\ ~exp
                /\ Raise(<<>>)
                /\ tokenFile' = [exists |-> FALSE, loadable |-> FALSE,
                                 token |-> FALSE, expired |-> FALSE,
                                 refresh_token |-> FALSE, origin |-> "file"]
                /\ UNCHANGED creds
    /\ UNCHANGED <<environ, service, csvLines, filePos,
                   fieldnames, first_row, row, event>>
AuthRefresh ==
    /\ pc = "auth_refresh"
    /\ \E result \in {"ok", "error"}, exp \in BOOLEAN :
        /\ calls' = Append(calls, Call("refresh", result))
        /\ IF result = "ok"
           THEN /\ creds' = <<[token |-> TRUE, expired |-> exp,
                               refresh_token |-> TRUE, origin |-> "refresh"]>>
                /\ pc' = "auth_persist"
                /\ UNCHANGED log
           ELSE /\ ~exp
                /\ Raise(<<>>)
                /\ UNCHANGED creds
    /\ UNCHANGED <<environ, tokenFile, service, csvLines, filePos,
                   fieldnames, first_row, row, event>>

\* lines 77-78: the client secrets are read, then the browser grant runs on
\* port 8080 until the user completes it or it fails
\* variant: a failed grant does not stop the run
AuthGrantSwallowsFailure ==
    /\ pc = "auth_grant"
    /\ \E result \in {"no_secrets", "error", "ok"}, exp \in BOOLEAN, rt \in BOOLEAN :
        /\ calls' = Append(calls, Call(IF result = "no_secrets"
                                       THEN "read_secrets" ELSE "grant",
                                       IF result = "ok" THEN "ok" ELSE "error"))
        /\ IF result = "ok"
           THEN /\ creds' = <<[token |-> TRUE, expired |-> exp,
                               refresh_token |-> rt, origin |-> "grant"]>>
                /\ pc' = "auth_persist"
                /\ UNCHANGED log
           ELSE /\ ~exp /\ ~rt
                /\ pc' = "csv_open"
                /\ UNCHANGED <<creds, log>>
    /\ UNCHANGED <<environ, tokenFile, service, csvLines, filePos,
                   fieldnames, first_row, row, event>>
AuthGrant ==
    /\ pc = "auth_grant"
    /\ \E result \in {"no_secrets", "error", "ok"}, exp \in BOOLEAN, rt \in BOOLEAN :
        /\ calls' = Append(calls, Call(IF result = "no_secrets"
                                       THEN "read_secrets" ELSE "grant",
                                       IF result = "ok" THEN "ok" ELSE "error"))
        /\ IF result = "ok"
           THEN /\ creds' = <<[token |-> TRUE, expired |-> exp,
                               refresh_token |-> rt, origin |-> "grant"]>>
                /\ pc' = "auth_persist"
                /\ UNCHANGED log
           ELSE /\ ~exp /\ ~rt
                /\ Raise(<<>>)
                /\ UNCHANGED creds
    /\ UNCHANGED <<environ, tokenFile, service, csvLines, filePos,
                   fieldnames, first_row, row, event>>

\* lines 80-82
AuthPersist ==
    /\ pc = "auth_persist"
    /\ calls' = Append(calls, Call("write_token", "ok"))
    /\ tokenFile' = ToFile(creds[1])
    /\ log' = Append(log, Log("DEBUG", 80))
    /\ pc' = "auth_build"
    /\ UNCHANGED <<environ, creds, service, csvLines, filePos,
                   fieldnames, first_row, row, event>>

\* lines 84-86 and line 148: build() fetches the API description and
\* returns the client handle, or raises
AuthBuild ==
    /\ pc = "auth_build"
    /\ \E result \in {"ok", "error"} :
        /\ calls' = Append(calls, Call("build", result))
        /\ IF result = "ok"
           THEN /\ service' = <<[credentials |-> creds[1]]>>
                /\ log' = log \o <<Log("DEBUG", 84), Log("INFO", 148)>>
                /\ pc' = "csv_open"
           ELSE /\ Raise(<<Log("DEBUG", 84)>>)
                /\ UNCHANGED service
    /\ UNCHANGED <<environ, tokenFile, creds, csvLines, filePos,
                   fieldnames, first_row, row, event>>

\* one line read from the file object by the csv reader: the line and the
\* new position, or StopIteration at the end of the file
ReadLine(lines, pos) ==
    IF pos < Len(lines)
    THEN [ok |-> TRUE, line |-> <<lines[pos + 1]>>, pos |-> pos + 1]
    ELSE [ok |-> FALSE, line |-> <<>>, pos |-> pos]

\* add_events_from_csv, lines 93-111: the columns are read and logged, the
\* first data row is read and logged, the file is rewound, one line is
\* discarded and the calendar identifier is checked again
CsvOpen ==
    /\ pc = "csv_open"
    /\ LET hdr == ReadLine(csvLines, filePos)            \* line 96
           peek == ReadLine(csvLines, hdr.pos)           \* line 98
           rewound == seek0(peek.pos)                    \* line 103
           skip == ReadLine(csvLines, rewound)           \* line 104
           peeked == IF peek.ok /\ hdr.ok
                     THEN <<DictRow(hdr.line[1], peek.line[1])>> ELSE <<>>
           logged == <<Log("INFO", 96)>>
                     \o (IF peeked # <<>> THEN <<Log("INFO", 100)>> ELSE <<>>)
       IN /\ calls' = Append(calls, Call("open_csv", "ok"))
          /\ fieldnames' = hdr.line
          /\ first_row' = peeked
          /\ filePos' = skip.pos
          /\ IF ~skip.ok
             THEN Raise(logged)
             ELSE IF ~Truthy(getenv("CALENDAR_ID"))
                  THEN Raise(logged \o <<Log("INFO", 108)>>)
                  ELSE /\ log' = log \o logged \o <<Log("INFO", 108)>>
                       /\ pc' = "loop"
    /\ UNCHANGED <<environ, tokenFile, creds, service, csvLines, row, event>>

\* one iteration of the loop of lines 113-136, or its end
\* variant: a row whose event the calendar already holds is not submitted
LoopRowSkipsExisting ==
    /\ pc = "loop"
    /\ LET rd == ReadLine(csvLines, filePos)
       IN IF ~rd.ok
          THEN /\ pc' = "done"
               /\ UNCHANGED <<filePos, row, event, calls, log>>
          ELSE \E r \in {DictRow(fieldnames[1], rd.line[1])} :
               \E ev \in {RowEvent(r)} :
                  /\ filePos' = rd.pos
                  /\ row' = <<r>>
                  /\ IF ~ev.ok
                     THEN /\ Raise(<<>>)
                          /\ UNCHANGED <<event, calls>>
                     ELSE IF \E j \in 1..Len(calls) :
                                  /\ calls[j].op = "insert"
                                  /\ calls[j].result = "ok"
                                  /\ calls[j].body = ev.value
                          THEN /\ event' = ev.value
                               /\ pc' = "loop"
                               /\ UNCHANGED <<calls, log>>
                     ELSE \E result \in {"ok", "HttpError", "Exception"} :
                            /\ event' = ev.value
                            /\ calls' = Append(calls,
                                   InsertCall(getenv("CALENDAR_ID")[1],
                                              ev.value[1], result))
                            /\ IF result = "ok"
                               THEN /\ log' = log \o <<Log("INFO", 131),
                                                       Log("INFO", 134)>>
                                    /\ pc' = "loop"
                               ELSE IF CaughtPerRow(result)
                                    THEN /\ log' = log \o <<Log("INFO", 131),
                                                            Log("ERROR", 136)>>
                                         /\ pc' = "loop"
                                    ELSE Raise(<<Log("INFO", 131)>>)
    /\ UNCHANGED <<environ, tokenFile, creds, service, csvLines,
                   fieldnames, first_row>>
LoopRow ==
    /\ pc = "loop"
    /\ LET rd == ReadLine(csvLines, filePos)
       IN IF ~rd.ok
          THEN /\ pc' = "done"
               /\ UNCHANGED <<filePos, row, event, calls, log>>
          ELSE \E r \in {DictRow(fieldnames[1], rd.line[1])} :
               \E ev \in {RowEvent(r)} :
                  /\ filePos' = rd.pos
                  /\ row' = <<r>>
                  /\ IF ~ev.ok
                     THEN /\ Raise(<<>>)
                          /\ UNCHANGED <<event, calls>>
                     ELSE \E result \in {"ok", "HttpError", "Exception"} :
                            /\ event' = ev.value
                            /\ calls' = Append(calls,
                                   InsertCall(getenv("CALENDAR_ID")[1],
                                              ev.value[1], result))
                            /\ IF result = "ok"
                               THEN /\ log' = log \o <<Log("INFO", 131),
                                                       Log("INFO", 134)>>
                                    /\ pc' = "loop"
                               ELSE IF CaughtPerRow(result)
                                    THEN /\ log' = log \o <<Log("INFO", 131),
                                                            Log("ERROR", 136)>>
                                         /\ pc' = "loop"
                                    ELSE Raise(<<Log("INFO", 131)>>)
    /\ UNCHANGED <<environ, tokenFile, creds, service, csvLines,
                   fieldnames, first_row>>

Next ==
    \/ ModuleLoad
    \/ MainCheckConfig
    \/ AuthLoad
    \/ AuthValidate
    \/ AuthRefresh
    \/ AuthGrant
    \/ AuthPersist
    \/ AuthBuild
    \/ CsvOpen
    \/ LoopRow

Spec == Init /\ [][Next]_vars

-----------------------------------------------------------------------------
\* The mapping of one row on its own: the inputs are one data line whose
\* start date ranges over whole years, and the step is lines 113-130 for
\* that line.

Years == (MinYear..(MinYear + NumYears - 1)) \cup {1900, 2000}

DateLines ==
    {<<"Event", <<y, m, d>>, <<7, 0>>,
       <<y, m, IF later THEN (d % 28) + 1 ELSE d>>, <<8, 0>>, "Text", "Place">> :
        y \in Years, m \in 1..12, d \in 1..31, later \in BOOLEAN}

InitRow ==
    /\ pc = "row"
    /\ environ = [CALENDAR_ID |-> "primary"]
    /\ tokenFile \in {f \in TokenFiles : ~f.exists}
    /\ csvLines \in {<<Header, l>> : l \in DateLines}
    /\ creds = <<>>
    /\ service = <<>>
    /\ filePos = 1
    /\ fieldnames = <<Header>>
    /\ first_row = <<>>
    /\ row = <<>>
    /\ event = <<>>
    /\ calls = <<>>
    /\ log = <<>>

\* lines 113-130 for the line at the cursor
MapRow ==
    /\ pc = "row"
    /\ LET rd == ReadLine(csvLines, filePos)
           r == DictRow(fieldnames[1], rd.line[1])
           ev == RowEvent(r)
       IN /\ rd.ok
          /\ filePos' = rd.pos
          /\ row' = <<r>>
          /\ event' = ev.value
          /\ pc' = IF ev.ok THEN "row_mapped" ELSE "row_rejected"
    /\ UNCHANGED <<environ, tokenFile, creds, service, csvLines,
                   fieldnames, first_row, calls, log>>

NextRow == MapRow

SpecRow == InitRow /\ [][NextRow]_vars

-----------------------------------------------------------------------------
\* What the properties below read off the two traces.

IsInsert(c) == c.op = "insert"
Inserts == SelectSeq(calls, IsInsert)

DataRows == IF csvLines = <<>> THEN <<>> ELSE Tail(csvLines)

Called(op, result) ==
    \E i \in 1..Len(calls) : calls[i].op = op /\ calls[i].result = result
CalledOp(op) == \E i \in 1..Len(calls) : calls[i].op = op

IsRowOutcome(l) == l.line \in {134, 136}
RowOutcomes == SelectSeq(log, IsRowOutcome)

IsAbort(l) == l.line = 151
Aborted == SelectSeq(log, IsAbort) # <<>>

\* whether a date text and a time text denote a moment of the calendar,
\* stated from the calendar's table of month lengths
MonthLength == <<31, 28, 31, 30, 31, 30, 31, 31, 30, 31, 30, 31>>
StampIsValid(date, time) ==
    /\ Len(date) = 3 /\ Len(time) = 2
    /\ date[1] >= 1 /\ date[1] <= 9999
    /\ date[2] >= 1 /\ date[2] <= 12
    /\ date[3] >= 1
    /\ date[3] <= MonthLength[date[2]]
                  + (IF date[2] = 2 /\ ((date[1] % 4 = 0 /\ date[1] % 100 # 0)
                                        \/ date[1] % 400 = 0)
                     THEN 1 ELSE 0)
    /\ time[1] >= 0 /\ time[1] <= 23
    /\ time[2] >= 0 /\ time[2] <= 59
LineIsValid(l) == StampIsValid(l[2], l[3]) /\ StampIsValid(l[4], l[5])

AllRowsValid == \A i \in 1..Len(DataRows) : LineIsValid(DataRows[i])

\* the index of the first data row that does not parse, or one past the last
FirstBadRow ==
    IF AllRowsValid THEN Len(DataRows) + 1
    ELSE CHOOSE k \in 1..Len(DataRows) :
            /\ ~LineIsValid(DataRows[k])
            /\ \A j \in 1..(k - 1) : LineIsValid(DataRows[j])

\* insert call i carries the texts of data row i
InsertIsOfRow(i) ==
    /\ i <= Len(DataRows)
    /\ Inserts[i].body[1].summary = DataRows[i][1]
    /\ Inserts[i].body[1].description = DataRows[i][6]
    /\ Inserts[i].body[1].location = DataRows[i][7]

ImportRan == CalledOp("open_csv") /\ Len(csvLines) >= 1

-----------------------------------------------------------------------------
\* C1: for a table of a header and N >= 1 data rows that all parse, with
\* every insert call succeeding, the finished run has issued exactly N
\* insert calls and the i-th one carries the i-th data row: none is skipped,
\* repeated or reordered, the first data row (read once before the rewind)
\* included.  At every moment the i-th insert issued so far is of row i.
C1_OneInsertPerRowInOrder ==
    /\ \A i \in 1..Len(Inserts) : InsertIsOfRow(i)
    /\ ( /\ pc = "done"
         /\ ImportRan
         /\ Len(DataRows) >= 1
         /\ AllRowsValid
         /\ \A i \in 1..Len(Inserts) : Inserts[i].result = "ok" )
       => /\ Len(Inserts) = Len(DataRows)
          /\ first_row # <<>>
          /\ first_row[1]["Subject"] = DataRows[1][1]

C1_Witness ==
    /\ pc = "done"
    /\ Len(DataRows) >= 2
    /\ Len(Inserts) = Len(DataRows)
    /\ \A i \in 1..Len(Inserts) : Inserts[i].result = "ok"
    /\ Inserts[1].body[1].summary # Inserts[2].body[1].summary
    /\ first_row # <<>>

\* C2: for a table of N rows that all parse and any set F of rows whose
\* insert call reports HttpError (the others succeeding), the finished run
\* has issued the N insert calls in table order, has logged for each row
\* exactly one outcome, a failure for the rows of F and a success for the
\* others, and has not aborted.
C2_RowLevelIsolation ==
    ( /\ pc = "done"
      /\ ImportRan
      /\ AllRowsValid
      /\ \A i \in 1..Len(Inserts) : Inserts[i].result \in {"ok", "HttpError"} )
    => /\ Len(Inserts) = Len(DataRows)
       /\ \A i \in 1..Len(Inserts) : InsertIsOfRow(i)
       /\ Len(RowOutcomes) = Len(DataRows)
       /\ \A i \in 1..Len(RowOutcomes) :
            RowOutcomes[i] = IF Inserts[i].result = "HttpError"
                             THEN Log("ERROR", 136) ELSE Log("INFO", 134)
       /\ ~Aborted

C2_Witness ==
    /\ pc = "done"
    /\ ~Aborted
    /\ Len(Inserts) >= 2
    /\ Len(Inserts) = Len(DataRows)
    /\ Inserts[1].result = "HttpError"
    /\ Inserts[2].result = "ok"
    /\ RowOutcomes[1].level = "ERROR"
    /\ RowOutcomes[2].level = "INFO"

\* C3: with the calendar identifier absent or empty, the run makes no
\* external call at all (no token refresh, no grant, no client construction,
\* no insert; neither the token file nor the table is opened), and main
\* reports the condition exactly once, as its only record, before it ends.
IsFromMain(l) == l.line > 60
C3_NoCallWithoutCalendarId ==
    ~Truthy(getenv("CALENDAR_ID"))
    => /\ calls = <<>>
       /\ service = <<>>
       /\ tokenFile \in TokenFiles
       /\ pc \in {"module", "main", "done"}
       /\ pc = "done" => SelectSeq(log, IsFromMain) = <<Log("ERROR", 143)>>
       /\ pc # "done" => SelectSeq(log, IsFromMain) = <<>>

C3_Witness ==
    /\ pc = "done"
    /\ "CALENDAR_ID" \in DOMAIN environ
    /\ environ["CALENDAR_ID"] = ""
    /\ tokenFile.exists
    /\ Len(DataRows) >= 1
    /\ calls = <<>>

\* C4: an insert call is issued, and the table is opened, only after the
\* configuration check passed and authenticate_google_calendar returned a
\* client handle in the same run; a run whose authentication failed at any
\* step (token load, refresh, client secrets, grant, build) ends with zero
\* insert calls and without opening the table.
IsAuthCall(c) ==
    c.op \in {"read_token", "refresh", "read_secrets", "grant", "write_token", "build"}
C4_ImportOnlyAfterReady ==
    /\ \A i \in 1..Len(calls) :
          calls[i].op \in {"insert", "open_csv"}
          => /\ Truthy(getenv("CALENDAR_ID"))
             /\ service # <<>>
             /\ \E j \in 1..(i - 1) : calls[j].op = "build" /\ calls[j].result = "ok"
             /\ \A j \in 1..(i - 1) : IsAuthCall(calls[j]) => calls[j].result = "ok"
    /\ (\E j \in 1..Len(calls) : IsAuthCall(calls[j]) /\ calls[j].result = "error")
       => /\ Inserts = <<>>
          /\ ~CalledOp("open_csv")
          /\ service = <<>>
          /\ pc = "done"

C4_Witness ==
    /\ Called("grant", "ok")
    /\ Called("build", "ok")
    /\ Len(Inserts) >= 1
    /\ service # <<>>

\* C5: when the refresh attempt fails, the interactive grant is launched in
\* the same run.
C5_RefreshFailureLaunchesGrant ==
    \A i \in 1..Len(calls) :
        (pc = "done" /\ calls[i].op = "refresh" /\ calls[i].result = "error")
        => \E j \in (i + 1)..Len(calls) : calls[j].op = "grant"

\* C6 as stated: validation sends no token to the grant, a valid token to
\* Ready, an invalid token with a refresh token to the refresh, and an
\* invalid token without a refresh token to the grant.
C6_AsStated ==
    [][pc = "auth_validate"
       => pc' = IF creds = <<>> THEN "auth_grant"
                ELSE IF Valid(creds[1]) THEN "auth_build"
                ELSE IF creds[1].refresh_token THEN "auth_refresh"
                ELSE "auth_grant"]_vars

\* C6 as amended: validation sends no token to the grant, a valid token to
\* Ready with neither refresh nor grant, an expired token with a refresh
\* token to the refresh, and every other invalid token (not expired, or
\* without a refresh token) to the grant.
C6_ValidationDecision ==
    [][pc = "auth_validate"
       => /\ pc' = IF creds = <<>> THEN "auth_grant"
                   ELSE IF creds[1].token /\ ~creds[1].expired THEN "auth_build"
                   ELSE IF creds[1].expired /\ creds[1].refresh_token
                        THEN "auth_refresh"
                   ELSE "auth_grant"
          /\ calls' = calls
          /\ creds' = creds
          /\ (creds = <<>>) = ~tokenFile.exists]_vars

C6_Witness ==
    /\ pc = "auth_grant"
    /\ creds # <<>>
    /\ ~creds[1].token
    /\ ~creds[1].expired
    /\ creds[1].refresh_token

\* C7: token.json is written exactly when the credential in memory was
\* replaced in this run: each write comes directly after a successful
\* refresh or grant and stores the credential it produced, each successful
\* refresh or grant is followed by a write before the client handle is
\* built, and a run whose loaded token is valid writes nothing.
IsReplacement(c) == c.op \in {"refresh", "grant"} /\ c.result = "ok"
C7_PersistIffReplaced ==
    /\ \A i \in 1..Len(calls) :
          calls[i].op = "write_token" => i > 1 /\ IsReplacement(calls[i - 1])
    /\ \A i \in 1..Len(calls) :
          IsReplacement(calls[i])
          => /\ pc # "auth_persist" => (i < Len(calls) /\ calls[i + 1].op = "write_token")
             /\ pc = "auth_persist" => i = Len(calls)
    /\ \A i \in 1..Len(calls) :
          calls[i].op = "build" => \A j \in 1..(i - 1) : IsReplacement(calls[j])
                                       => calls[j + 1].op = "write_token"
    /\ CalledOp("write_token")
       => tokenFile = ToFile(creds[1]) /\ tokenFile.origin # "file"
    /\ ~CalledOp("write_token") => tokenFile \in TokenFiles
    /\ (service # <<>> /\ service[1].credentials.origin = "file")
       => ~CalledOp("write_token") /\ ~CalledOp("refresh") /\ ~CalledOp("grant")

C7_Witness ==
    /\ service # <<>>
    /\ Called("refresh", "ok")
    /\ CalledOp("write_token")
    /\ tokenFile.origin = "refresh"

\* C8: a date-time that does not parse is not isolated to its row: if row k
\* is the first data row whose start or end does not parse, the insert
\* calls of the run are never more than those of rows 1..k-1, in order, and
\* a run that got that far without an unexpected insert error ends aborted
\* with exactly those k-1 calls, none for row k or any later row.
C8_ParseFailureAborts ==
    /\ Len(Inserts) <= FirstBadRow - 1
    /\ \A i \in 1..Len(Inserts) : InsertIsOfRow(i) /\ LineIsValid(DataRows[i])
    /\ ( /\ pc = "done"
         /\ ImportRan
         /\ ~AllRowsValid
         /\ \A i \in 1..Len(Inserts) : Inserts[i].result \in {"ok", "HttpError"} )
       => /\ Len(Inserts) = FirstBadRow - 1
          /\ Aborted
          /\ filePos = FirstBadRow + 1

C8_Witness ==
    /\ pc = "done"
    /\ FirstBadRow = 2
    /\ Len(DataRows) >= 3
    /\ LineIsValid(DataRows[3])
    /\ Len(Inserts) = 1
    /\ Inserts[1].result = "ok"
    /\ Aborted

\* C9: the recurrence of the event built from a row is the one rule
\* RRULE:FREQ=WEEKLY;COUNT=52;BYDAY=<XX>, where <XX> is the code that the
\* fixed table Sunday->SU, Monday->MO, ... Saturday->SA gives for the day of
\* the week on which the row's start date (not its end date) falls.
ByDayCodes == <<"SU", "MO", "TU", "WE", "TH", "FR", "SA">>
MonthKeys == <<0, 3, 2, 5, 0, 3, 5, 1, 4, 6, 2, 4>>
\* the day of the week of a calendar date, Sunday = 0, by the key-value method
DayOfWeek(date) ==
    LET y == IF date[2] < 3 THEN date[1] - 1 ELSE date[1]
    IN (y + (y \div 4) - (y \div 100) + (y \div 400) + MonthKeys[date[2]] + date[3]) % 7
RuleOf(date) ==
    <<"RRULE:" \o "FREQ=WEEKLY;COUNT=52;BYDAY=" \o ByDayCodes[DayOfWeek(date) + 1]>>
C9_RecurrenceFollowsStartWeekday ==
    /\ pc = "row_mapped"
       => /\ event # <<>>
          /\ event[1].recurrence = RuleOf(row[1]["Start Date"])
          /\ row[1]["Start Date"] = <<2024, 10, 14>>
             => event[1].recurrence = <<"RRULE:FREQ=WEEKLY;COUNT=52;BYDAY=MO">>
    /\ pc = "row_rejected" => event = <<>>
    /\ \A i \in 1..Len(Inserts) :
          Inserts[i].body[1].recurrence = RuleOf(DataRows[i][2])

C9_Witness ==
    /\ pc = "row_mapped"
    /\ row[1]["Start Date"] = <<2024, 10, 14>>
    /\ row[1]["End Date"] = <<2024, 10, 15>>
    /\ event[1].recurrence = <<"RRULE:FREQ=WEEKLY;COUNT=52;BYDAY=MO">>

\* C10: every submitted event is built from its own row alone: summary,
\* location and description are the row's Subject, Location and
\* Description, start is the row's Start Date and Start Time and end the
\* row's End Date and End Time, each rendered as YYYY-MM-DDTHH:MM:00, and
\* both carry the one fixed time zone; the row Exercise,2024-10-14,07:00,
\* 2024-10-14,08:00,Workout,Gym gives start 2024-10-14T07:00:00 and end
\* 2024-10-14T08:00:00.
RECURSIVE Decimal(_, _)
Decimal(n, width) ==
    IF width = 0 THEN ""
    ELSE Decimal(n \div 10, width - 1)
         \o (CASE n % 10 = 0 -> "0" [] n % 10 = 1 -> "1" [] n % 10 = 2 -> "2"
               [] n % 10 = 3 -> "3" [] n % 10 = 4 -> "4" [] n % 10 = 5 -> "5"
               [] n % 10 = 6 -> "6" [] n % 10 = 7 -> "7" [] n % 10 = 8 -> "8"
               [] OTHER -> "9")
Stamp(date, time) ==
    Decimal(date[1], 4) \o "-" \o Decimal(date[2], 2) \o "-" \o Decimal(date[3], 2)
    \o "T" \o Decimal(time[1], 2) \o ":" \o Decimal(time[2], 2) \o ":00"
C10_EventMirrorsRow ==
    \A i \in 1..Len(Inserts) :
        LET e == Inserts[i].body[1]
            l == DataRows[i]
        IN /\ e.summary = l[1]
           /\ e.description = l[6]
           /\ e.location = l[7]
           /\ e.start.dateTime = Stamp(l[2], l[3])
           /\ e.end.dateTime = Stamp(l[4], l[5])
           /\ e.start.timeZone = "America/New_York"
           /\ e.end.timeZone = "America/New_York"
           /\ DOMAIN e = {"summary", "location", "description", "start", "end",
                          "recurrence"}
           /\ Inserts[i].calendarId = environ["CALENDAR_ID"]
           /\ l[1] = "Exercise"
              => /\ e.start.dateTime = "2024-10-14T07:00:00"
                 /\ e.end.dateTime = "2024-10-14T08:00:00"
                 /\ e.location = "Gym"
                 /\ e.description = "Workout"
                 /\ e.recurrence = <<"RRULE:FREQ=WEEKLY;COUNT=52;BYDAY=MO">>

C10_Witness ==
    /\ Len(Inserts) >= 2
    /\ Inserts[1].body[1].summary = "Trip"
    /\ Inserts[1].body[1].start.dateTime = "2024-10-18T22:30:00"
    /\ Inserts[1].body[1].end.dateTime = "2024-10-19T06:15:00"
    /\ Inserts[2].body[1].summary = "Exercise"
    /\ Inserts[2].body[1].start.dateTime = "2024-10-14T07:00:00"

-----------------------------------------------------------------------------
\* The script run again on the same files against the same calendar.  The
\* calendar keeps what the earlier run inserted and the terminal keeps what
\* it logged, so `calls` and `log` go on; everything local to the process
\* starts afresh.

MaxRuns == 2        \* the script is started at most this many times
MaxRerunRows == 2   \* at most this many data rows in the table that is re-imported

IsProcessStart(l) == l.line = 36
RunsStarted == Len(SelectSeq(log, IsProcessStart))

\* the re-imported tables: the header and the first n lines of a table that
\* alternates two lines of SampleLines that parse
RerunLine(i) ==
    CHOOSE l \in SampleLines : l[1] = (IF i % 2 = 1 THEN "Exercise" ELSE "Trip")
RerunTables ==
    {<<Header>> \o [i \in 1..n |-> RerunLine(i)] : n \in 0..MaxRerunRows}

InitRerun ==
    /\ pc = "module"
    /\ environ = [CALENDAR_ID |-> "primary"]
    /\ tokenFile \in {f \in TokenFiles :
                        \/ ~f.exists
                        \/ f.loadable /\ f.token /\ f.refresh_token}
    /\ csvLines \in RerunTables
    /\ creds = <<>>
    /\ service = <<>>
    /\ filePos = 0
    /\ fieldnames = <<>>
    /\ first_row = <<>>
    /\ row = <<>>
    /\ event = <<>>
    /\ calls = <<>>
    /\ log = <<>>

\* lines 153-154 once more: a new process, with token.json, the table, the
\* environment and the calendar as the last run left them
Rerun ==
    /\ pc = "done"
    /\ RunsStarted < MaxRuns
    /\ pc' = "module"
    /\ creds' = <<>>
    /\ service' = <<>>
    /\ filePos' = 0
    /\ fieldnames' = <<>>
    /\ first_row' = <<>>
    /\ row' = <<>>
    /\ event' = <<>>
    /\ UNCHANGED <<environ, tokenFile, csvLines, calls, log>>

NextRerun == Next \/ Rerun

SpecRerun == InitRerun /\ [][NextRerun]_vars

-----------------------------------------------------------------------------
\* C11: the import is not idempotent.  Re-running the script on the same
\* table of N rows that all parse, against the same calendar, repeats every
\* insert: as long as no insert fails unexpectedly, the k-th insert call
\* issued since the first run is of row ((k-1) mod N)+1, every run that
\* reaches the import and finishes has added N calls (2N after two such
\* runs), and when the calls succeed every row has two equal events.
IsOpenCsv(c) == c.op = "open_csv"
ImportsStarted == Len(SelectSeq(calls, IsOpenCsv))
C11_RerunDuplicates ==
    (\A i \in 1..Len(Inserts) : Inserts[i].result \in {"ok", "HttpError"})
    => LET N == Len(DataRows)
       IN /\ \A i \in 1..Len(Inserts) :
                /\ N >= 1
                /\ Inserts[i].body[1].summary = DataRows[((i - 1) % N) + 1][1]
                /\ Inserts[i].body[1].start.dateTime
                     = Stamp(DataRows[((i - 1) % N) + 1][2], DataRows[((i - 1) % N) + 1][3])
          /\ Len(Inserts) <= N * ImportsStarted
          /\ pc = "done" => Len(Inserts) = N * ImportsStarted
          /\ (pc = "done" /\ ImportsStarted = 2)
             => /\ Len(Inserts) = 2 * N
                /\ \A k \in 1..N : Inserts[N + k].body = Inserts[k].body

C11_Witness ==
    /\ pc = "done"
    /\ RunsStarted = 2
    /\ ImportsStarted = 2
    /\ Len(DataRows) >= 2
    /\ Len(Inserts) = 2 * Len(DataRows)
    /\ \A i \in 1..Len(Inserts) : Inserts[i].result = "ok"
    /\ Inserts[1].body # Inserts[2].body

\* C12: an error of an insert call other than HttpError is not isolated to
\* its row: that call is the last insert of the run, no outcome is logged
\* for its row, the error is logged by main with its traceback (line 151)
\* as the last record, and the run is over with the later rows unread.
C12_UnexpectedInsertErrorAborts ==
    \A i \in 1..Len(Inserts) :
        Inserts[i].result = "Exception"
        => /\ i = Len(Inserts)
           /\ pc = "done"
           /\ log[Len(log)] = Log("ERROR", 151)
           /\ Len(RowOutcomes) = i - 1
           /\ filePos = i + 1

C12_Witness ==
    /\ pc = "done"
    /\ Len(DataRows) >= 2
    /\ LineIsValid(DataRows[2])
    /\ Len(Inserts) = 1
    /\ Inserts[1].result = "Exception"

\* C13: the credential bound to the client handle that authentication
\* returns is valid (an access token is present and has not expired).
C13_HandleCredentialIsValid ==
    service # <<>> => Valid(service[1].credentials)

\* C14: in one run the token file is read at most once, the refresh is
\* attempted at most once, the grant is launched at most once, the client
\* is built at most once; nothing of the authentication happens after the
\* client handle was built or after one of its steps failed.
CountOp(op) == Cardinality({i \in 1..Len(calls) : calls[i].op = op})
IsAuthStart(l) == l.line = 146
C14_AuthenticationRunsOnce ==
    /\ \A op \in {"read_token", "refresh", "read_secrets", "grant",
                  "write_token", "build"} : CountOp(op) <= 1
    /\ Len(SelectSeq(log, IsAuthStart)) <= 1
    /\ \A i \in 1..Len(calls) : \A j \in (i + 1)..Len(calls) :
          /\ calls[i].op = "build" => ~IsAuthCall(calls[j])
          /\ (IsAuthCall(calls[i]) /\ calls[i].result = "error") => FALSE
    /\ pc \in {"auth_load", "auth_validate", "auth_refresh", "auth_grant",
               "auth_persist", "auth_build"}
       => ~CalledOp("build") /\ service = <<>>

C14_Witness ==
    /\ pc = "done"
    /\ Called("refresh", "ok")
    /\ Called("build", "ok")
    /\ Len(Inserts) >= 2

\* C15: when the refresh or the grant fails, token.json is as it was at the
\* start of the run: the file changes only in the step that writes it, and
\* a run in which the refresh or the grant failed has no such step.
C15_FailedAuthLeavesTokenFile ==
    /\ []((Called("refresh", "error") \/ Called("grant", "error")
           \/ Called("read_secrets", "error"))
          => ~CalledOp("write_token") /\ tokenFile \in TokenFiles)
    /\ [][tokenFile' # tokenFile
          => /\ pc = "auth_persist"
             /\ calls' = Append(calls, Call("write_token", "ok"))
             /\ IsReplacement(calls[Len(calls)])]_vars

C15_Witness ==
    /\ pc = "done"
    /\ Called("refresh", "error")
    /\ tokenFile.exists
    /\ tokenFile.expired
    /\ tokenFile.refresh_token
    /\ tokenFile.origin = "file"

-----------------------------------------------------------------------------
\* The run under the assumption that every step, the external calls
\* included, eventually returns or fails: the one thread of control always
\* takes its next step.

\* the runs termination is checked on: every start-up case of Init, and
\* tables of up to MaxFairRows data lines, each one that parses or one
\* whose start date does not exist
MaxFairRows == 2
FairLines == {l \in SampleLines : l[1] \in {"Exercise", "Review"}}
FairTables ==
    {<<>>} \cup {<<Header>> \o rs : rs \in SeqsUpTo(FairLines, MaxFairRows)}
InitFair ==
    /\ pc = "module"
    /\ \/ environ = <<>>
       \/ environ \in {[CALENDAR_ID |-> v] : v \in {"", "primary"}}
    /\ tokenFile \in TokenFiles
    /\ csvLines \in FairTables
    /\ creds = <<>>
    /\ service = <<>>
    /\ filePos = 0
    /\ fieldnames = <<>>
    /\ first_row = <<>>
    /\ row = <<>>
    /\ event = <<>>
    /\ calls = <<>>
    /\ log = <<>>
\* the interpreter runs the single thread of the script whenever it has a
\* next step, and every external call returns or raises
SpecFair == InitFair /\ [][Next]_vars /\ WF_vars(Next)

\* C16: every run terminates, and by main returning normally: the run
\* reaches the end of main, every step moves to a later phase (the loop
\* alone repeats, each time one line further into the file), and no error
\* leaves main.
Phase(p) ==
    CASE p = "module" -> 0
      [] p = "main" -> 1
      [] p = "auth_load" -> 2
      [] p = "auth_validate" -> 3
      [] p \in {"auth_refresh", "auth_grant"} -> 4
      [] p = "auth_persist" -> 5
      [] p = "auth_build" -> 6
      [] p = "csv_open" -> 7
      [] p = "loop" -> 8
      [] p = "done" -> 9
      [] OTHER -> -1
C16_RunTerminatesNormally ==
    /\ <>(pc = "done")
    /\ [](Phase(pc) >= 0)
    /\ [][\/ Phase(pc') > Phase(pc)
          \/ pc = "loop" /\ pc' = "loop" /\ filePos' = filePos + 1]_vars

C16_Witness ==
    /\ pc = "done"
    /\ Aborted
    /\ Len(Inserts) >= 1
    /\ Len(Inserts) < Len(DataRows)

\* C17: for a table that is a header and no data row, a run that reaches
\* the import ends normally with no insert call and no error: the peek
\* finds no row, the rewind and the discarded line consume the header, and
\* the header is never submitted as an event.
C17_HeaderOnlyTable ==
    /\ (ImportRan /\ Len(csvLines) = 1)
       => /\ pc \in {"loop", "done"}
          /\ Inserts = <<>>
          /\ ~Aborted
          /\ first_row = <<>>
          /\ fieldnames = <<Header>>
          /\ filePos = 1
          /\ row = <<>>
    /\ \A i \in 1..Len(Inserts) : Inserts[i].body[1].summary # Header[1]

C17_Witness ==
    /\ pc = "done"
    /\ Len(csvLines) = 1
    /\ CalledOp("open_csv")
    /\ Inserts = <<>>
    /\ ~Aborted

====
